---- MODULE Spec2Model ----
(***************************************************************************)
(* Model of backend/main.py: the layout-based table extractor process_pdf  *)
(* and the section matcher process_pdfs.                                   *)
(*                                                                         *)
(* Strings are sequences of one-character strings, so that concatenation,  *)
(* strip, substring search and pattern search are computed, not assumed.   *)
(* A word is a record [text, x0, x1, top] as page.extract_words() yields.  *)
(* A DataFrame is a record [columns, rows]: columns is the sequence of     *)
(* labels (repeats allowed, as pandas allows them) and every row has one   *)
(* cell per label.                                                         *)
(***************************************************************************)
EXTENDS Integers, Sequences, FiniteSets, TLC

VARIABLES
    pc,             \* position of the request / of the extraction
    sections,       \* the raw `sections` form field (process_pdfs)
    sections_data,  \* json.loads(sections), when it is a mapping
    pdf1_tables,    \* process_pdf's return value for pdf1
    pdf2_tables,    \* process_pdf's return value for pdf2
    pages_read,     \* pages of the current document already visited
    results,        \* the results mapping built by the section loop
    response,       \* what the endpoint answers
    words,          \* page.extract_words() of the page visited last
    extracted_tables \* process_pdf's local list (extraction specification)

vars == <<pc, sections, sections_data, pdf1_tables, pdf2_tables, pages_read,
          results, response, words, extracted_tables>>

----------------------------------------------------------------------------
(* Strings *)

S_OPR == <<"O", "P", "R">>
S_POL == <<"P", "O", "L">>
S_POD == <<"P", "O", "D">>
S_AB == <<"A", "B">>
S_Total == <<"T", "o", "t", "a", "l">>
S_total == <<"t", "o", "t", "a", "l">>
S_ab == <<"a", "b">>
S_b == <<"b">>

\* line 22
TARGET_HEADERS ==
    { <<"S", ".", "S">>, S_POL, S_POD, S_OPR,
      <<"2", "2", "1", "0">>, <<"4", "5", "1", "0">>, <<"4", "5", "G", "0">>,
      <<"4", "5", "G", "1">>, <<"4", "3", "1", "0">>, <<"4", "3", "6", "3">>,
      <<"4", "5", "3", "2">>, <<"E">>, <<"F">> }

\* the tolerance added to a header's extent (line 39)
BandPad == 5
\* the vertical tolerance of a row (line 58)
RowTol == 5

IsSpace(c) == c = " "

\* str.strip(): leading and trailing whitespace removed
RECURSIVE LStrip(_)
LStrip(s) ==
    IF s = <<>> THEN <<>>
    ELSE IF IsSpace(Head(s)) THEN LStrip(Tail(s)) ELSE s

RECURSIVE RStrip(_)
RStrip(s) ==
    IF s = <<>> THEN <<>>
    ELSE IF IsSpace(s[Len(s)]) THEN RStrip(SubSeq(s, 1, Len(s) - 1)) ELSE s

strip(s) == RStrip(LStrip(s))

\* str.lower() on the letters the model uses
lower(c) ==
    CASE c = "T" -> "t"
      [] c = "O" -> "o"
      [] c = "A" -> "a"
      [] c = "L" -> "l"
      [] c = "P" -> "p"
      [] c = "R" -> "r"
      [] c = "B" -> "b"
      [] c = "C" -> "c"
      [] c = "D" -> "d"
      [] OTHER -> c

Lowered(s) == [i \in 1..Len(s) |-> lower(s[i])]

\* sub occurs in s at some offset (Python's `sub in s`)
Substring(sub, s) ==
    \E off \in 0..(Len(s) - Len(sub)) :
        \A k \in 1..Len(sub) : s[off + k] = sub[k]

----------------------------------------------------------------------------
(* process_pdf, one page (lines 30-82) *)

\* line 39: the tuple appended for a header word
HeaderTuple(word) == <<word.text, word.x0 - BandPad, word.x1 + BandPad>>

\* lines 36-39: the header tuples in word order
RECURSIVE HeaderScan(_)
HeaderScan(ws) ==
    IF ws = <<>> THEN <<>>
    ELSE IF Head(ws).text \in TARGET_HEADERS
         THEN <<HeaderTuple(Head(ws))>> \o HeaderScan(Tail(ws))
         ELSE HeaderScan(Tail(ws))

\* list.sort(key=lambda x: x[1]) is stable: t goes after every element
\* whose key is not greater
RECURSIVE InsertByLeft(_, _)
InsertByLeft(t, sorted) ==
    IF sorted = <<>> THEN <<t>>
    ELSE IF Head(sorted)[2] <= t[2]
         THEN <<Head(sorted)>> \o InsertByLeft(t, Tail(sorted))
         ELSE <<t>> \o sorted

RECURSIVE SortByLeft(_)
SortByLeft(hs) ==
    IF hs = <<>> THEN <<>>
    ELSE InsertByLeft(hs[Len(hs)], SortByLeft(SubSeq(hs, 1, Len(hs) - 1)))

\* lines 36-41
header_positions(ws) == SortByLeft(HeaderScan(ws))

\* lines 47-48
column_positions(hp) == [i \in 1..Len(hp) |-> <<hp[i][2], hp[i][3]>>]
column_names(hp) == [i \in 1..Len(hp) |-> hp[i][1]]

\* sorted(): the elements of a finite set of numbers in ascending order
RECURSIVE SortedSeq(_)
SortedSeq(S) ==
    IF S = {} THEN <<>>
    ELSE LET m == CHOOSE x \in S : \A y \in S : x <= y
         IN <<m>> \o SortedSeq(S \ {m})

\* line 51
row_positions(ws) == SortedSeq({ws[i].top : i \in 1..Len(ws)})

Abs(n) == IF n < 0 THEN -n ELSE n

\* matched_column taking the last band that holds the word's x0
matched_column_last(word, cp) ==
    LET hits == {i \in 1..Len(cp) : cp[i][1] <= word.x0 /\ word.x0 <= cp[i][2]}
    IN IF hits = {} THEN 0 ELSE CHOOSE i \in hits : \A j \in hits : i >= j

\* lines 59-63: the first column whose band holds the word's x0; 0 is None
matched_column(word, cp) ==
    LET hits == {i \in 1..Len(cp) : cp[i][1] <= word.x0 /\ word.x0 <= cp[i][2]}
    IN IF hits = {} THEN 0 ELSE CHOOSE i \in hits : \A j \in hits : i <= j

\* line 66: what `+=` appends for a word: f" {text}".strip()
Appended(text) == strip(<<" ">> \o text)

\* row_data taking the words at most, instead of less than, RowTol away
RECURSIVE row_data_inclusive(_, _, _)
row_data_inclusive(y, ws, cp) ==
    IF ws = <<>> THEN [i \in 1..Len(cp) |-> <<>>]
    ELSE LET prev == row_data_inclusive(y, SubSeq(ws, 1, Len(ws) - 1), cp)
             word == ws[Len(ws)]
             m    == matched_column(word, cp)
         IN IF Abs(word.top - y) <= RowTol /\ m # 0 /\ m <= Len(prev)
            THEN [prev EXCEPT ![m] = @ \o Appended(word.text)]
            ELSE prev

\* lines 55-66: the row of anchor y
RECURSIVE row_data(_, _, _)
row_data(y, ws, cp) ==
    IF ws = <<>> THEN [i \in 1..Len(cp) |-> <<>>]
    ELSE LET prev == row_data(y, SubSeq(ws, 1, Len(ws) - 1), cp)
             word == ws[Len(ws)]
             m    == matched_column(word, cp)
         IN IF Abs(word.top - y) < RowTol /\ m # 0 /\ m <= Len(prev)
            THEN [prev EXCEPT ![m] = @ \o Appended(word.text)]
            ELSE prev

\* line 68: any(row_data)
AnyCell(row) == \E i \in 1..Len(row) : row[i] # <<>>

\* lines 52-69
RowsAt(ys, ws, cp) ==
    SelectSeq([k \in 1..Len(ys) |-> row_data(ys[k], ws, cp)],
              LAMBDA r : Len(r) = Len(cp) /\ AnyCell(r))

table_data(ws, hp) == RowsAt(row_positions(ws), ws, column_positions(hp))

\* line 75: some cell contains "total", case ignored
HasTotal(row) == \E i \in 1..Len(row) : Substring(S_total, Lowered(row[i]))

\* the header-row test keeping every row
DiffersFromLabels_always(row, names) == TRUE

\* line 76: the row differs from the labels in some position
DiffersFromLabels(row, names) == \E i \in 1..Len(row) : row[i] # names[i]

\* lines 73-76 (dropna(how='all') drops nothing: no cell is missing)
Cleaned(rows, names) ==
    SelectSeq(rows, LAMBDA r : ~HasTotal(r) /\ DiffersFromLabels(r, names))

ColumnsOf(names, label) == {i \in 1..Len(names) : names[i] = label}

\* the OPR filter keeping every row
OprFilter_none(rows, i) == rows

\* line 79: the rows whose OPR cell is not blank; i is the OPR column
OprFilter(rows, i) == SelectSeq(rows, LAMBDA r : strip(r[i]) # <<>>)

\* lines 78-82: the OPR filter and the append. df["OPR"] is a DataFrame
\* when the label OPR is repeated, and a DataFrame has no .str accessor:
\* the attribute error leaves the page loop.
FilterAndAppend(names, rows, opr) ==
    IF Cardinality(opr) > 1 THEN [kind |-> "fault"]
    ELSE LET kept == IF opr = {} THEN rows
                     ELSE OprFilter(rows, CHOOSE i \in opr : TRUE)
         IN IF kept = <<>> THEN [kind |-> "skip"]
            ELSE [kind |-> "table", df |-> [columns |-> names, rows |-> kept]]

\* lines 72-82
CleanUp(names, td) ==
    IF td = <<>> THEN [kind |-> "skip"]
    ELSE FilterAndAppend(names, Cleaned(td, names), ColumnsOf(names, S_OPR))

\* lines 43-82
WithHeaders(ws, hp) ==
    IF hp = <<>> THEN [kind |-> "skip"]
    ELSE CleanUp(column_names(hp), table_data(ws, hp))

\* lines 30-82 for one page: "skip" (nothing appended), "table" (df
\* appended) or "fault" (an exception leaves the loop)
page_result(ws) ==
    IF ws = <<>> THEN [kind |-> "skip"]
    ELSE WithHeaders(ws, header_positions(ws))

----------------------------------------------------------------------------
(* The pages the layout engine may hand to the extractor *)

MaxWords == 2

WordTexts == {S_OPR, S_POL, S_AB, S_Total}
WordX0s == {0, 10, 16}
WordWidths == {4}
WordTops == {0, 4, 5}

WordPool ==
    {[text |-> t, x0 |-> x, x1 |-> x + w, top |-> y] :
        t \in WordTexts, x \in WordX0s, w \in WordWidths, y \in WordTops}

ExtractPages == UNION {[1..n -> WordPool] : n \in 0..MaxWords}

----------------------------------------------------------------------------
(* process_pdfs: the section matcher (lines 109-124) *)

\* a missing value (NaN) of a combined dataset; no string equals it
NaN == <<"NaN">>

HasRepeats(names) == \E i, j \in 1..Len(names) : i # j /\ names[i] = names[j]

\* the labels of the tables in order of first appearance
RECURSIVE UnionLabels(_, _)
UnionLabels(acc, names) ==
    IF names = <<>> THEN acc
    ELSE IF \E i \in 1..Len(acc) : acc[i] = Head(names)
         THEN UnionLabels(acc, Tail(names))
         ELSE UnionLabels(Append(acc, Head(names)), Tail(names))

RECURSIVE AllLabels(_)
AllLabels(tables) ==
    IF tables = <<>> THEN <<>>
    ELSE UnionLabels(AllLabels(SubSeq(tables, 1, Len(tables) - 1)),
                     tables[Len(tables)].columns)

\* a row of df laid out under the labels cols; a label df lacks gives NaN
Reindexed(df, cols) ==
    [k \in 1..Len(df.rows) |->
        [c \in 1..Len(cols) |->
            LET at == ColumnsOf(df.columns, cols[c])
            IN IF at = {} THEN NaN ELSE df.rows[k][CHOOSE i \in at : TRUE]]]

RECURSIVE Stacked(_, _)
Stacked(tables, cols) ==
    IF tables = <<>> THEN <<>>
    ELSE Reindexed(Head(tables), cols) \o Stacked(Tail(tables), cols)

RECURSIVE AllRows(_)
AllRows(tables) ==
    IF tables = <<>> THEN <<>>
    ELSE Head(tables).rows \o AllRows(Tail(tables))

\* lines 114-115: pd.concat(tables) if tables else pd.DataFrame().
\* Tables with one and the same label sequence are stacked as they are.
\* Otherwise every table is reindexed to the union of the labels, and
\* reindexing a table whose labels repeat raises InvalidIndexError.
concat(tables) ==
    IF tables = <<>> THEN [kind |-> "ok", columns |-> <<>>, rows |-> <<>>]
    ELSE IF \A i \in 1..Len(tables) : tables[i].columns = tables[1].columns
    THEN [kind |-> "ok", columns |-> tables[1].columns, rows |-> AllRows(tables)]
    ELSE IF \E i \in 1..Len(tables) : HasRepeats(tables[i].columns)
    THEN [kind |-> "fault"]
    ELSE [kind |-> "ok", columns |-> AllLabels(tables),
          rows |-> Stacked(tables, AllLabels(tables))]

\* re.compile(pat) on patterns over letters, "." and "(": an unclosed "("
\* is an error
RegexValid(pat) == \A k \in 1..Len(pat) : pat[k] # "("

\* re.search(pat, s) for a valid pattern: "." stands for any character
RegexSearch(pat, s) ==
    \E off \in 0..(Len(s) - Len(pat)) :
        \A k \in 1..Len(pat) : pat[k] = "." \/ s[off + k] = pat[k]

\* Series.str.contains(pat, na=False) on one cell (regex=True by default)
str_contains(cell, pat) == cell # NaN /\ RegexSearch(pat, cell)

\* matches counting 0 when the dataset has no OPR label
matches_lenient(data, number) ==
    IF data.rows = <<>> \/ data.columns = <<>> THEN [kind |-> "ok", n |-> 0]
    ELSE IF ColumnsOf(data.columns, S_OPR) = {} THEN [kind |-> "ok", n |-> 0]
    ELSE IF ~RegexValid(number) THEN [kind |-> "error"]
    ELSE LET i == CHOOSE c \in ColumnsOf(data.columns, S_OPR) : TRUE
         IN [kind |-> "ok",
             n |-> Cardinality({k \in 1..Len(data.rows) :
                                  str_contains(data.rows[k][i], number)})]

\* matches without the test for an empty dataset
matches_unguarded(data, number) ==
    IF ColumnsOf(data.columns, S_OPR) = {} THEN [kind |-> "KeyError"]
    ELSE IF ~RegexValid(number) THEN [kind |-> "error"]
    ELSE LET i == CHOOSE c \in ColumnsOf(data.columns, S_OPR) : TRUE
         IN [kind |-> "ok",
             n |-> Cardinality({k \in 1..Len(data.rows) :
                                  str_contains(data.rows[k][i], number)})]

\* lines 118-119: len(data[data['OPR'].str.contains(number, na=False)])
\* if not data.empty else 0; "KeyError" without an OPR label, "error" when
\* the pattern does not compile
matches(data, number) ==
    IF data.rows = <<>> \/ data.columns = <<>> THEN [kind |-> "ok", n |-> 0]
    ELSE IF ColumnsOf(data.columns, S_OPR) = {} THEN [kind |-> "KeyError"]
    ELSE IF ~RegexValid(number) THEN [kind |-> "error"]
    ELSE LET i == CHOOSE c \in ColumnsOf(data.columns, S_OPR) : TRUE
         IN [kind |-> "ok",
             n |-> Cardinality({k \in 1..Len(data.rows) :
                                  str_contains(data.rows[k][i], number)})]

\* lines 118-124: the section's result, or the exception of the first
\* filter that raises
MatchedBoth(key, m1, m2) ==
    IF m1.kind # "ok" THEN [kind |-> m1.kind]
    ELSE IF m2.kind # "ok" THEN [kind |-> m2.kind]
    ELSE [kind |-> "ok",
          result |-> [section |-> key, pdf1 |-> m1.n, pdf2 |-> m2.n]]

\* lines 114-124 once both datasets are combined
Matched(key, number, d1, d2) ==
    IF d1.kind = "fault" \/ d2.kind = "fault"
    THEN [kind |-> "InvalidIndexError"]
    ELSE MatchedBoth(key, matches(d1, number), matches(d2, number))

\* lines 110-124: one iteration of the section loop
section_result(key, data, t1, t2) ==
    IF ~data.has_number \/ ~data.has_date THEN [kind |-> "KeyError"]
    ELSE Matched(key, data.number, concat(t1), concat(t2))

----------------------------------------------------------------------------
(* The requests *)

MaxPages == 2
MaxSections == 2

Word(t, x, y) == [text |-> t, x0 |-> x, x1 |-> x + 4, top |-> y]

\* no words; words and no header; a header and no other row; an OPR
\* column with the cells "ab" and "b"; a POL column; two POL headers with
\* overlapping bands; two OPR headers
RequestPages ==
    { <<>>,
      <<Word(S_AB, 0, 0)>>,
      <<Word(S_OPR, 0, 0)>>,
      <<Word(S_OPR, 0, 0), Word(S_ab, 0, 10), Word(S_b, 0, 20)>>,
      <<Word(S_POL, 0, 0), Word(S_ab, 0, 10)>>,
      <<Word(S_POL, 10, 0), Word(S_POL, 16, 0)>>,
      <<Word(S_OPR, 0, 0), Word(S_OPR, 20, 0)>> }

Numbers == {<<"a">>, <<".">>, <<"(">>}

\* a section entry: {number, date}, either key possibly absent
Entries ==
    {[has_number |-> TRUE, has_date |-> TRUE, number |-> n] : n \in Numbers}
    \cup {[has_number |-> FALSE, has_date |-> TRUE, number |-> <<>>],
          [has_number |-> TRUE, has_date |-> FALSE, number |-> <<"a">>]}

\* the `sections` field: not JSON, JSON that is no mapping, or a mapping
Payloads ==
    {[kind |-> "malformed"], [kind |-> "list"]}
    \cup {[kind |-> "mapping", items |-> it] :
            it \in UNION {[1..n -> Entries] : n \in 0..MaxSections}}

Init ==
    /\ pc = "start"
    /\ sections \in Payloads
    /\ sections_data = <<>>
    /\ pdf1_tables = <<>>
    /\ pdf2_tables = <<>>
    /\ pages_read = 0
    /\ results = <<>>
    /\ response = [status |-> 0]
    /\ words = <<>>
    /\ extracted_tables = <<>>

\* the except clause answering with the results computed so far
RaisePartial(detail) ==
    /\ pc' = "done"
    /\ response' = [status |-> 200, body |-> results]

\* lines 128-131: the handler's except clause
Raise(detail) ==
    /\ pc' = "done"
    /\ response' = [status |-> 500, detail |-> detail]

\* line 97: json.loads(sections)
ParseSections ==
    /\ pc = "start"
    /\ IF sections.kind = "malformed"
       THEN /\ Raise("JSONDecodeError")
            /\ UNCHANGED sections_data
       ELSE /\ pc' = "open1"
            /\ sections_data' =
                  IF sections.kind = "mapping" THEN sections.items ELSE <<>>
            /\ UNCHANGED response
    /\ UNCHANGED <<sections, pdf1_tables, pdf2_tables, pages_read, results,
                   words, extracted_tables>>

\* lines 26-28 for document d: pdfplumber.open yields the pages or raises;
\* the exception reaches the handler as an HTTPException (lines 85-88)
OpenPdf(d) ==
    /\ pc = IF d = 1 THEN "open1" ELSE "open2"
    /\ \E readable \in BOOLEAN :
          IF readable
          THEN /\ pc' = IF d = 1 THEN "pages1" ELSE "pages2"
               /\ UNCHANGED response
          ELSE Raise("HTTPException")
    /\ extracted_tables' = <<>>
    /\ pages_read' = 0
    /\ UNCHANGED <<sections, sections_data, pdf1_tables, pdf2_tables,
                   results, words>>

\* lines 29-82 for document d: one iteration of the page loop
ProcessPage(d) ==
    /\ pc = IF d = 1 THEN "pages1" ELSE "pages2"
    /\ pages_read < MaxPages
    /\ \E ws \in RequestPages :
        \E r \in {page_result(ws)} :
             /\ words' = ws
             /\ pages_read' = pages_read + 1
             /\ extracted_tables' =
                    IF r.kind = "table" THEN Append(extracted_tables, r.df)
                    ELSE extracted_tables
             /\ IF r.kind = "fault"
                THEN Raise("HTTPException")
                ELSE UNCHANGED <<pc, response>>
    /\ UNCHANGED <<sections, sections_data, pdf1_tables, pdf2_tables,
                   results>>

\* line 84, then line 102 or 106
ReturnTables(d) ==
    /\ pc = IF d = 1 THEN "pages1" ELSE "pages2"
    /\ pc' = IF d = 1 THEN "open2" ELSE "loop"
    /\ pdf1_tables' = IF d = 1 THEN extracted_tables ELSE pdf1_tables
    /\ pdf2_tables' = IF d = 2 THEN extracted_tables ELSE pdf2_tables
    /\ extracted_tables' = <<>>
    /\ words' = <<>>
    /\ pages_read' = 0
    /\ UNCHANGED <<sections, sections_data, results, response>>

\* line 109 when the JSON value has no items()
ItemsFault ==
    /\ pc = "loop"
    /\ sections.kind # "mapping"
    /\ Raise("AttributeError")
    /\ UNCHANGED <<sections, sections_data, pdf1_tables, pdf2_tables,
                   pages_read, results, words, extracted_tables>>

\* lines 109-124: the next iteration of the section loop
ProcessSection ==
    /\ pc = "loop"
    /\ sections.kind = "mapping"
    /\ Len(results) < Len(sections_data)
    /\ \E r \in {section_result(Len(results) + 1,
                                  sections_data[Len(results) + 1],
                                  pdf1_tables, pdf2_tables)} :
          IF r.kind = "ok"
          THEN /\ results' = Append(results, r.result)
               /\ UNCHANGED <<pc, response>>
          ELSE /\ Raise(r.kind)
               /\ UNCHANGED results
    /\ UNCHANGED <<sections, sections_data, pdf1_tables, pdf2_tables,
                   pages_read, words, extracted_tables>>

\* line 126
ReturnResults ==
    /\ pc = "loop"
    /\ sections.kind = "mapping"
    /\ Len(results) = Len(sections_data)
    /\ pc' = "done"
    /\ response' = [status |-> 200, body |-> results]
    /\ UNCHANGED <<sections, sections_data, pdf1_tables, pdf2_tables,
                   pages_read, results, words, extracted_tables>>

Next ==
    \/ ParseSections
    \/ \E d \in {1, 2} : OpenPdf(d) \/ ProcessPage(d) \/ ReturnTables(d)
    \/ ItemsFault
    \/ ProcessSection
    \/ ReturnResults

Spec == Init /\ [][Next]_vars


----------------------------------------------------------------------------
(* process_pdf on a one-page document (lines 24-88) *)

InitExtract ==
    /\ pc = "open"
    /\ sections = "none"
    /\ sections_data = <<>>
    /\ pdf1_tables = <<>>
    /\ pdf2_tables = <<>>
    /\ pages_read = 0
    /\ results = <<>>
    /\ response = [status |-> 0]
    /\ words = <<>>
    /\ extracted_tables = <<>>

\* line 28: pdfplumber.open either yields the pages or raises
ExtractOpen ==
    /\ pc = "open"
    /\ \E readable \in BOOLEAN :
          pc' = IF readable THEN "pages" ELSE "raised"
    /\ UNCHANGED <<sections, sections_data, pdf1_tables, pdf2_tables,
                   pages_read, results, response, words, extracted_tables>>

\* lines 29-82: one iteration of the page loop
ExtractPage ==
    /\ pc = "pages"
    /\ pages_read = 0
    /\ \E ws \in ExtractPages :
        \E r \in {page_result(ws)} :
             /\ words' = ws
             /\ pages_read' = pages_read + 1
             /\ pc' = IF r.kind = "fault" THEN "raised" ELSE "pages"
             /\ extracted_tables' =
                    IF r.kind = "table" THEN Append(extracted_tables, r.df)
                    ELSE extracted_tables
    /\ UNCHANGED <<sections, sections_data, pdf1_tables, pdf2_tables,
                   results, response>>

\* line 84
ExtractReturn ==
    /\ pc = "pages"
    /\ pc' = "returned"
    /\ UNCHANGED <<sections, sections_data, pdf1_tables, pdf2_tables,
                   pages_read, results, response, words, extracted_tables>>

NextExtract == ExtractOpen \/ ExtractPage \/ ExtractReturn

SpecExtract == InitExtract /\ [][NextExtract]_vars

----------------------------------------------------------------------------
(* Properties of the extractor (SpecExtract) *)

\* the page of the state has been processed
PageDone == pages_read = 1

Bands == column_positions(header_positions(words))
Anchors == row_positions(words)

InBand(w, band) == band[1] <= w.x0 /\ w.x0 <= band[2]

RECURSIVE ConcatTexts(_)
ConcatTexts(ws) ==
    IF ws = <<>> THEN <<>> ELSE Head(ws).text \o ConcatTexts(Tail(ws))

RECURSIVE JoinTexts(_)
JoinTexts(ws) ==
    IF ws = <<>> THEN <<>>
    ELSE IF Len(ws) = 1 THEN ws[1].text
    ELSE Head(ws).text \o <<" ">> \o JoinTexts(Tail(ws))

\* the words of row y that the code puts in column i
CellWords(y, i) ==
    SelectSeq(words, LAMBDA w : Abs(w.top - y) < RowTol
                                /\ matched_column(w, Bands) = i)

SpaceJoinedRow(y) == [i \in 1..Len(Bands) |-> JoinTexts(CellWords(y, i))]

\* C2: every row of a returned table is, for some row anchor of its page,
\* the row whose cells are the texts of the words assigned to each column
\* joined with one space between consecutive words.
C2_CellsSpaceJoined ==
    PageDone =>
        \A t \in 1..Len(extracted_tables) :
            \A k \in 1..Len(extracted_tables[t].rows) :
                \E a \in 1..Len(Anchors) :
                    extracted_tables[t].rows[k] = SpaceJoinedRow(Anchors[a])

\* C5: every row of a returned table has a non-blank cell in every column
\* labelled OPR, and no candidate row of the page with a blank OPR cell is
\* among the rows returned.
C5_NoBlankOprRows ==
    \A t \in 1..Len(extracted_tables) :
        LET df == extracted_tables[t]
        IN \A i \in ColumnsOf(df.columns, S_OPR) :
              /\ \A k \in 1..Len(df.rows) :
                    \E c \in 1..Len(df.rows[k][i]) : df.rows[k][i][c] # " "
              /\ \A a \in 1..Len(Anchors) :
                    LET row == row_data(Anchors[a], words, Bands)
                    IN (\A c \in 1..Len(row[i]) : row[i][c] = " ")
                       => \A k \in 1..Len(df.rows) : df.rows[k] # row

\* C5 witness: a table with an OPR column was returned from a page one of
\* whose candidate rows had no OPR text
C5_Witness ==
    /\ pc = "returned"
    /\ Len(extracted_tables) = 1
    /\ \E i \in ColumnsOf(extracted_tables[1].columns, S_OPR) :
         \E a \in 1..Len(Anchors) :
            LET row == row_data(Anchors[a], words, Bands)
            IN AnyCell(row) /\ row[i] = <<>>

\* C8: no row of a returned table equals the table's labels position by
\* position.
C8_NoHeaderRow ==
    \A t \in 1..Len(extracted_tables) :
        \A k \in 1..Len(extracted_tables[t].rows) :
            \E i \in 1..Len(extracted_tables[t].columns) :
                extracted_tables[t].rows[k][i] # extracted_tables[t].columns[i]

\* C8 witness: a table was returned from a page one of whose candidate
\* rows repeated the labels
C8_Witness ==
    /\ pc = "returned"
    /\ Len(extracted_tables) = 1
    /\ \E a \in 1..Len(Anchors) :
         row_data(Anchors[a], words, Bands) = extracted_tables[1].columns

\* the first band, in column order, that holds the word's x0 is band i
FirstBand(w, i) ==
    /\ InBand(w, Bands[i])
    /\ \A j \in 1..(i - 1) : ~InBand(w, Bands[j])

\* C9: the columns are in ascending order of band left edge, every band is
\* [x0 - 5, x1 + 5] of a header word, and in every row each cell holds the
\* texts of exactly the row's words whose x0 lies in the cell's band and in
\* no band of an earlier column; so a word is in at most one cell and a
\* word in no band is in none.
C9_FirstBandWins ==
    PageDone =>
        /\ \A i, j \in 1..Len(Bands) : i < j => Bands[i][1] <= Bands[j][1]
        /\ Len(Bands)
              = Cardinality({n \in 1..Len(words) : words[n].text \in TARGET_HEADERS})
        /\ \A i \in 1..Len(Bands) :
              \E n \in 1..Len(words) :
                  /\ words[n].text \in TARGET_HEADERS
                  /\ Bands[i] = <<words[n].x0 - 5, words[n].x1 + 5>>
        /\ \A a \in 1..Len(Anchors) :
              \A i \in 1..Len(Bands) :
                  row_data(Anchors[a], words, Bands)[i] =
                      ConcatTexts(SelectSeq(words,
                          LAMBDA w : Abs(w.top - Anchors[a]) < 5
                                     /\ FirstBand(w, i)))

\* C9 witness: a header word lies in the bands of two columns, and the
\* page gave a table
C9_Witness ==
    /\ pc = "returned"
    /\ Len(extracted_tables) = 1
    /\ \E n \in 1..Len(words) :
         \E i, j \in 1..Len(Bands) :
            i < j /\ InBand(words[n], Bands[i]) /\ InBand(words[n], Bands[j])

\* the row of anchor y built from the words strictly less than 5 from y
NearRow(y) ==
    [i \in 1..Len(Bands) |->
        ConcatTexts(SelectSeq(words,
            LAMBDA w : w.top - y < 5 /\ y - w.top < 5
                       /\ matched_column(w, Bands) = i))]

\* C10: the row anchors are the distinct top values in ascending order,
\* and the candidate rows are, in that order, the non-empty rows built for
\* each anchor y from exactly the words w with |w.top - y| < 5; the rows of
\* a returned table are among them.
C10_RowAnchors ==
    (PageDone /\ Bands # <<>>) =>
        /\ {Anchors[a] : a \in 1..Len(Anchors)}
              = {words[n].top : n \in 1..Len(words)}
        /\ \A a, b \in 1..Len(Anchors) : a < b => Anchors[a] < Anchors[b]
        /\ table_data(words, header_positions(words))
              = SelectSeq([a \in 1..Len(Anchors) |-> NearRow(Anchors[a])],
                          AnyCell)
        /\ \A t \in 1..Len(extracted_tables) :
              \A k \in 1..Len(extracted_tables[t].rows) :
                  \E a \in 1..Len(Anchors) :
                      extracted_tables[t].rows[k] = NearRow(Anchors[a])

\* C10 witness: two words with different tops less than 5 apart gave two
\* rows that each hold both
C10_Witness ==
    /\ pc = "returned"
    /\ Len(extracted_tables) = 1
    /\ Len(extracted_tables[1].rows) = 2
    /\ extracted_tables[1].rows[1] = extracted_tables[1].rows[2]
    /\ Len(Anchors) = 2

----------------------------------------------------------------------------
(* Properties of the request (Spec) *)

Done == pc = "done"
Succeeded == Done /\ response.status = 200
Failed == Done /\ response.status = 500

\* the payload is a mapping whose entries all carry number and date
WellFormed ==
    /\ sections.kind = "mapping"
    /\ \A k \in 1..Len(sections.items) :
          sections.items[k].has_number /\ sections.items[k].has_date

HasOpr(df) == ColumnsOf(df.columns, S_OPR) # {}

\* a non-empty combined dataset without an OPR column
LacksOpr(tables) ==
    tables # <<>> /\ \A t \in 1..Len(tables) : ~HasOpr(tables[t])

\* the rows of the document whose OPR cell exists and contains number as a
\* literal substring
LiteralMatches(tables, number) ==
    UNION {{<<t, k>> : k \in {r \in 1..Len(tables[t].rows) :
                \E i \in ColumnsOf(tables[t].columns, S_OPR) :
                    Substring(number, tables[t].rows[r][i])}} :
           t \in 1..Len(tables)}

\* C1: in a successful answer the two counts of every section are the
\* numbers of rows of each document whose OPR cell contains the section's
\* number as a literal substring.
C1_LiteralSubstringCount ==
    Succeeded =>
        \A k \in 1..Len(response.body) :
            /\ response.body[k].pdf1 =
                 Cardinality(LiteralMatches(pdf1_tables, sections.items[k].number))
            /\ response.body[k].pdf2 =
                 Cardinality(LiteralMatches(pdf2_tables, sections.items[k].number))

\* C3 as stated: a document whose tables are not empty and have no OPR
\* column makes the request fail, whatever the sections mapping.
C3_MissingOprAlwaysFails ==
    (Done /\ sections.kind = "mapping"
          /\ (LacksOpr(pdf1_tables) \/ LacksOpr(pdf2_tables)))
        => response.status = 500 /\ "body" \notin DOMAIN response

\* C3 amended: a document whose tables are not empty and have no OPR column
\* makes the request fail, with no per-section result, whenever the
\* sections mapping has at least one entry.
C3_MissingOprFailsWithSections ==
    (Done /\ sections.kind = "mapping" /\ Len(sections.items) >= 1
          /\ (LacksOpr(pdf1_tables) \/ LacksOpr(pdf2_tables)))
        => response.status = 500 /\ "body" \notin DOMAIN response

\* C3 witness: the lookup of OPR failed in the first section of a
\* well-formed request whose first document has tables without OPR
C3_Witness ==
    /\ Failed
    /\ WellFormed
    /\ Len(sections.items) >= 1
    /\ LacksOpr(pdf1_tables)
    /\ response.detail = "KeyError"

\* the tables of the document do not all carry the same labels
LabelsDiffer(tables) ==
    \E a, b \in 1..Len(tables) :
        {tables[a].columns[i] : i \in 1..Len(tables[a].columns)}
            # {tables[b].columns[i] : i \in 1..Len(tables[b].columns)}

\* C4: when both documents were extracted, every section entry is complete
\* with a number free of pattern characters, and each document with tables
\* has OPR in one of them, tables with differing label sets do not make the
\* request fail: every section gets its result.
C4_DifferingLabelsNeverFail ==
    (/\ Done
     /\ WellFormed
     /\ \A k \in 1..Len(sections.items) :
           \A c \in 1..Len(sections.items[k].number) :
               sections.items[k].number[c] \notin {".", "("}
     /\ LabelsDiffer(pdf1_tables) \/ LabelsDiffer(pdf2_tables)
     /\ ~LacksOpr(pdf1_tables) /\ ~LacksOpr(pdf2_tables)
     /\ ~(response.status = 500 /\ response.detail = "HTTPException"))
        => /\ response.status = 200
           /\ Len(response.body) = Len(sections.items)

C7_EmptyDocumentZeroMatches ==
    /\ Succeeded =>
          \A k \in 1..Len(response.body) :
              /\ pdf1_tables = <<>> => response.body[k].pdf1 = 0
              /\ pdf2_tables = <<>> => response.body[k].pdf2 = 0
    /\ (Done /\ WellFormed /\ pdf1_tables = <<>> /\ pdf2_tables = <<>>
          /\ ~(response.status = 500 /\ response.detail = "HTTPException"))
          => /\ response.status = 200
             /\ Len(response.body) = Len(sections.items)
             /\ \A k \in 1..Len(response.body) :
                   response.body[k].pdf1 = 0 /\ response.body[k].pdf2 = 0

\* C7 witness: two documents without tables and a section whose number
\* would not compile as a pattern, answered with zero matches
C7_Witness ==
    /\ Succeeded
    /\ pdf1_tables = <<>>
    /\ pdf2_tables = <<>>
    /\ \E k \in 1..Len(response.body) :
          /\ sections.items[k].number = <<"(">>
          /\ response.body[k].pdf1 = 0
          /\ response.body[k].pdf2 = 0

====
